---- MODULE Spec2Model ----
(***************************************************************************)
(* Reminder-Agent backend (backend/main.py): the tables users and         *)
(* reminders, the APScheduler job store (one DateTrigger job "job_<id>"    *)
(* per reminder), the request handlers register / create / snooze /        *)
(* cancel / delete / list / poll and the timer callback notifier_notify.   *)
(*                                                                         *)
(* Request handlers are plain `def` endpoints, so the framework runs them  *)
(* on worker threads; notifier_notify runs on the scheduler's executor     *)
(* thread.  Every SQL statement and every call on the scheduler            *)
(* (remove_job, add_job) is one atomic step; a handler is the sequence of  *)
(* its steps, and steps of different handlers interleave.                  *)
(*                                                                         *)
(* Time is in seconds since the epoch.  The clock advances in steps of     *)
(* TickStep while no handler is in flight and no timer is due (handlers    *)
(* are short compared with a tick, the scheduler thread wakes up at the    *)
(* due time of its next job).                                              *)
(***************************************************************************)
EXTENDS Integers, Sequences, FiniteSets, TLC

\* ---------------------------------------------------------------- bounds
MaxReminders == 2      \* reminders ever created (uuid4 ids are never reused)
MaxRacing == 1         \* reminders created where handlers interleave step by step
MaxTicks == 2          \* clock ticks of TickStep seconds
MaxWorkers == 1        \* request handlers in flight at the same time
MaxRegistering == 2    \* register requests in flight at the same time

\* ------------------------------------------------------------- constants
Now0 == 6000           \* wall clock (epoch seconds) when the model starts
SecondsPerMinute == 60 \* snooze: minutes * 60
TickStep == SecondsPerMinute \* the clock is observed once a minute
MisfireGrace == 1      \* scheduler job default misfire_grace_time (seconds)
Daily == 86400         \* repeat_interval_seconds of a "daily" reminder

RIds == 1..MaxReminders
Users == {1, 2}
Workers == 1..MaxWorkers
RegWorkers == 1..MaxRegistering
Horizon == Now0 + MaxTicks * TickStep

\* The zone of the host: local time = UTC + offset (seconds).
TzOffsets == {0, 3600}
\* Inputs of the requests.
WhenDeltas == {60}             \* payload.when, relative to now
RepeatInputs == {<<>>, <<60>>} \* payload.repeat_interval_seconds (None or int)
MinutesInputs == {1}           \* snooze minutes
\* payload.repeat_interval_seconds, any Optional[int] the request model accepts
RepeatAny == {<<>>, <<60>>, <<0>>, <<-60>>}
\* payload.recurrence: the label, "" for None
NoLabel == ""
Labels == {NoLabel, "daily"}
SinceInputs == {<<>>, <<0>>, <<Now0 + TickStep>>}  \* poll since (None or int)

\* payload.email of register; the first two are the accounts of Users.
Emails == {"a@m", "b@m", "c@m", "d@m"}
Accounts == <<"a@m", "b@m">>

\* The Authorization header of a request: absent (None), or a string, here
\* "<scheme> <token>" ("" when both parts are empty).
NoHeader == [present |-> FALSE, scheme |-> "", token |-> ""]
Header(scheme, token) == [present |-> TRUE, scheme |-> scheme, token |-> token]
\* Tokens: "junk" does not decode, "nosub" decodes to claims without "sub",
\* "t1", "t2", "t5" are tokens issued for the user ids 1, 2 and 5.
Headers ==
  { NoHeader, Header("", ""), Header("Token", "t1"), Header("Bearer", "junk"),
    Header("Bearer", "nosub"), Header("Bearer", "t1"), Header("Bearer", "t2"),
    Header("Bearer", "t5") }

\* Optional[int]: None is <<>>, a value v is <<v>>.
None == <<>>
Some(v) == <<v>>
IsNone(o) == o = <<>>
Val(o) == o[1]

VARIABLES
  now,        \* time.time(), as an integer
  tz,         \* zone offset of the host (get_localzone), fixed at start
  reminders,  \* table reminders: id -> row (present = FALSE: no such row)
  jobs,       \* scheduler job store: id -> run_date (epoch) of job_<id>, or None
  created,    \* number of ids handed out by uuid4 so far
  npc,        \* notifier_notify(id): position of the running callback
  nrem,       \* notifier_notify(id): the row it loaded (rem), while it runs
  wk,         \* request handlers in flight, one per worker thread
  resp,       \* the response returned by the handler that just finished
  hist,       \* per id: callbacks invoked, 'fired' updates made, failed steps, ...
  users,      \* table users: the emails in order of insertion (id = position)
  reg         \* register handlers in flight

vars == <<now, tz, reminders, jobs, created, npc, nrem, wk, resp, hist, users, reg>>

\* ------------------------------------------------------------ the tables
\* A row of table reminders (the columns the handlers read or write).
NoRow == [present |-> FALSE, user_id |-> 0, when_ts |-> 0, status |-> "none",
          snooze_until |-> None, repeat_interval |-> None, recurrence |-> ""]

Statuses == {"scheduled", "fired", "cancelled"}

\* datetime values are records [naive, t]: naive (no tzinfo, t is the
\* wall-clock reading) or aware (t is the instant, in epoch seconds).

\* datetime.utcfromtimestamp(ts): the naive UTC wall-clock reading of ts.
utcfromtimestamp(ts) == [naive |-> TRUE, t |-> ts]

\* datetime.timestamp(): a naive datetime is read as local time.
timestamp(dt) == IF dt.naive THEN dt.t - tz ELSE dt.t

\* DateTrigger(run_date=dt): a naive run_date is localized in the zone of the
\* host; the result is the instant at which the job is due.
DateTrigger(dt) == IF dt.naive THEN dt.t - tz ELSE dt.t

\* Mutant: load_reminder returns a row also for an id that is not stored.
load_reminder_always(rid) == [reminders[rid] EXCEPT !.present = TRUE]

\* load_reminder(rid): the row, or None (NoRow).
load_reminder(rid) == reminders[rid]

\* INSERT INTO reminders ... status 'scheduled'.
save_reminder_db(rs, rid, user_id, when_ts, recurrence, repeat_interval) ==
  [rs EXCEPT ![rid] = [present |-> TRUE, user_id |-> user_id, when_ts |-> when_ts,
                       status |-> "scheduled", snooze_until |-> None,
                       repeat_interval |-> repeat_interval,
                       recurrence |-> recurrence]]

\* Mutant: the update only touches a row that is still 'scheduled'.
update_status_if_scheduled(rs, rid, status) ==
  IF rs[rid].present /\ rs[rid].status = "scheduled"
  THEN [rs EXCEPT ![rid].status = status] ELSE rs

\* UPDATE reminders SET status=? WHERE id=?  (no row: nothing happens).
update_reminder_status(rs, rid, status) ==
  IF rs[rid].present THEN [rs EXCEPT ![rid].status = status] ELSE rs

\* UPDATE reminders SET when_ts=?, status='scheduled' WHERE id=?
rearm_update(rs, rid, next_ts) ==
  IF rs[rid].present
  THEN [rs EXCEPT ![rid].when_ts = next_ts, ![rid].status = "scheduled"]
  ELSE rs

\* UPDATE reminders SET snooze_until=?, when_ts=?, status='scheduled' WHERE id=?
snooze_update(rs, rid, new_ts) ==
  IF rs[rid].present
  THEN [rs EXCEPT ![rid].snooze_until = Some(new_ts), ![rid].when_ts = new_ts,
                  ![rid].status = "scheduled"]
  ELSE rs

\* DELETE FROM reminders WHERE id=?
delete_row(rs, rid) == [rs EXCEPT ![rid] = NoRow]

\* -------------------------------------------------------- the job store
\* Mutant: remove_job without the try/except around it.
remove_job_unguarded(js, rid) ==
  [jobs |-> [js EXCEPT ![rid] = None], raised |-> IsNone(js[rid])]

\* Mutant: the job is left in the job store.
remove_job_skipped(js, rid) == [jobs |-> js, raised |-> FALSE]

\* try: scheduler.remove_job(job_id) except Exception: pass
\* (remove_job raises JobLookupError when there is no such job).
try_remove_job(js, rid) == [jobs |-> [js EXCEPT ![rid] = None], raised |-> FALSE]

\* Mutant: add_job stores the job next to a job that has the same id.
add_job_append(js, rid, trigger) ==
  [jobs |-> [js EXCEPT ![rid] = Append(@, trigger)], raised |-> FALSE]

\* scheduler.add_job(..., id=job_id): ids are unique in the job store, a second
\* job with the same id raises ConflictingIdError (replace_existing is not set).
add_job(js, rid, trigger) ==
  IF IsNone(js[rid])
  THEN [jobs |-> [js EXCEPT ![rid] = Some(trigger)], raised |-> FALSE]
  ELSE [jobs |-> js, raised |-> TRUE]

\* schedule_job(reminder_id, when_dt) run without interruption, trigger being
\* DateTrigger(run_date=when_dt): remove_job, then add_job.
schedule_job(js, rid, trigger) ==
  LET res == try_remove_job(js, rid)
  IN IF res.raised THEN [jobs |-> js, raised |-> TRUE]
                   ELSE add_job(res.jobs, rid, trigger)

\* ------------------------------------------------------------- history
NoHist == [invoked |-> 0, fired |-> <<>>, failed |-> 0, deleted |-> FALSE,
           delivered |-> FALSE]

Invoked(h, r) == [h EXCEPT ![r].invoked = @ + 1]
Fired(h, r, t, sent) == [h EXCEPT ![r].fired = Append(@, t), ![r].delivered = sent]
Failed(h, r) == [h EXCEPT ![r].failed = 1]
Deleted(h, r) == [h EXCEPT ![r].deleted = TRUE]

\* ------------------------------------------------- handlers and responses
Idle == [op |-> "none", pc |-> "idle", user |-> 0, rid |-> 0, minutes |-> 0,
         trigger |-> 0, st |-> "none"]

NoResp == [op |-> "none", code |-> 0, user |-> 0, rid |-> 0, st |-> "none",
           minutes |-> 0, t |-> 0, rep |-> None, since |-> None, rows |-> {},
           email |-> "", header |-> NoHeader]

Reply(w, code) == [NoResp EXCEPT !.op = wk[w].op, !.code = code, !.user = wk[w].user,
                                 !.rid = wk[w].rid, !.st = wk[w].st,
                                 !.minutes = wk[w].minutes]

\* No handler and no callback is in flight.
Quiet == (\A w \in Workers : wk[w] = Idle) /\ (\A r \in RIds : npc[r] = "idle")

\* A request starts on the first free worker thread; under serial execution
\* only when nothing else is in flight.
CanStart(w, serial) ==
  /\ wk[w] = Idle
  /\ \A v \in Workers : v < w => wk[v] # Idle
  /\ serial => Quiet

Init ==
  /\ now = Now0
  /\ tz \in TzOffsets
  /\ reminders = [r \in RIds |-> NoRow]
  /\ jobs = [r \in RIds |-> None]
  /\ created = 0
  /\ npc = [r \in RIds |-> "idle"]
  /\ nrem = [r \in RIds |-> NoRow]
  /\ wk = [w \in Workers |-> Idle]
  /\ resp = NoResp
  /\ hist = [r \in RIds |-> NoHist]
  /\ users = Accounts
  /\ reg = [w \in RegWorkers |-> ""]

\* ------------------------------------------------------------ the clock
\* The scheduler thread sleeps until the next run_date, so a due job is
\* processed before the clock moves on.
Tick ==
  /\ Quiet
  /\ now + TickStep <= Horizon
  /\ \A r \in RIds : ~IsNone(jobs[r]) => Val(jobs[r]) > now
  /\ now' = now + TickStep
  /\ resp' = NoResp
  /\ UNCHANGED <<tz, reminders, jobs, created, npc, nrem, wk, hist, users, reg>>

\* The process is stopped while nothing is in flight and started again
\* TickStep seconds later.  The tables and the job store are in the SQLite
\* file and come back as they were; scheduler.start() then processes the jobs
\* that are due.
Restart ==
  /\ Quiet
  /\ now + TickStep <= Horizon
  /\ now' = now + TickStep
  /\ resp' = NoResp
  /\ UNCHANGED <<tz, reminders, jobs, created, npc, nrem, wk, hist, users, reg>>

\* ------------------------------------------------------- get_current_user
\* get_user_by_id(uid): is there a row of users with this id.
get_user_by_id(us, uid) == uid \in 1..Len(us)

\* decode_token(token): the claims of the token, or HTTP 401.
decode_token(token) ==
  CASE token = "t1" -> [ok |-> TRUE, sub |-> Some(1)]
    [] token = "t2" -> [ok |-> TRUE, sub |-> Some(2)]
    [] token = "t5" -> [ok |-> TRUE, sub |-> Some(5)]
    [] token = "nosub" -> [ok |-> TRUE, sub |-> None]
    [] OTHER -> [ok |-> FALSE, sub |-> None]

\* Python truth of the header: None and "" are false.
header_given(h) == h.present /\ ~(h.scheme = "" /\ h.token = "")

\* get_current_user(authorization): the user the request runs as (code 200),
\* or the error that ends the request (int(None) is a TypeError: 500).
get_current_user(us, h) ==
  IF header_given(h)
  THEN IF h.scheme # "Bearer" THEN [code |-> 401, user |-> 0]
       ELSE LET data == decode_token(h.token)
            IN IF ~data.ok THEN [code |-> 401, user |-> 0]
               ELSE IF IsNone(data.sub) THEN [code |-> 500, user |-> 0]
               ELSE IF get_user_by_id(us, Val(data.sub))
                    THEN [code |-> 200, user |-> Val(data.sub)]
                    ELSE [code |-> 401, user |-> 0]
  ELSE IF get_user_by_id(us, 1) THEN [code |-> 200, user |-> 1]
       ELSE [code |-> 401, user |-> 0]

\* The dependency of a request, on its own: the answer to a request with
\* header h as far as authentication goes.
Authenticate(h) ==
  /\ LET a == get_current_user(users, h)
     IN resp' = [NoResp EXCEPT !.op = "auth", !.code = a.code, !.user = a.user,
                               !.header = h]
  /\ UNCHANGED <<now, tz, reminders, jobs, created, npc, nrem, wk, hist, users, reg>>

\* ------------------------------------------------------------- register
\* get_user_by_email(email): is there a row with this email.
get_user_by_email(us, email) == \E i \in 1..Len(us) : us[i] = email

\* Mutant: the column email is not declared UNIQUE.
insert_user_not_unique(us, email) == [users |-> Append(us, email), raised |-> FALSE]

\* INSERT INTO users (email, ...): the column email is UNIQUE, a second row
\* with the same email raises sqlite3.IntegrityError and inserts nothing.
insert_user(us, email) ==
  IF get_user_by_email(us, email)
  THEN [users |-> us, raised |-> TRUE]
  ELSE [users |-> Append(us, email), raised |-> FALSE]

\* if get_user_by_email(payload.email): raise HTTPException(400, ...)
RegisterCheck(w, email) ==
  /\ reg[w] = ""
  /\ IF get_user_by_email(users, email)
     THEN /\ resp' = [NoResp EXCEPT !.op = "register", !.code = 400, !.email = email]
          /\ reg' = reg
     ELSE /\ resp' = NoResp
          /\ reg' = [reg EXCEPT ![w] = email]
  /\ UNCHANGED <<now, tz, reminders, jobs, created, npc, nrem, wk, hist, users>>

\* phash = hash_password(...); INSERT INTO users ...; return {"ok": True}
RegisterInsert(w) ==
  /\ reg[w] # ""
  /\ LET res == insert_user(users, reg[w])
     IN /\ users' = res.users
        /\ resp' = [NoResp EXCEPT !.op = "register", !.email = reg[w],
                                  !.code = IF res.raised THEN 500 ELSE 200]
  /\ reg' = [reg EXCEPT ![w] = ""]
  /\ UNCHANGED <<now, tz, reminders, jobs, created, npc, nrem, wk, hist>>

\* ------------------------------------------------------- create_reminder
\* rid = uuid4(); when_ts = int(payload.when.timestamp()); save_reminder_db(...)
CreateSave(w, serial, limit, u, d, naive, rec, rep) ==
  /\ CanStart(w, serial)
  /\ created < limit
  /\ LET rid == created + 1
         when == IF naive THEN [naive |-> TRUE, t |-> now + d + tz]
                          ELSE [naive |-> FALSE, t |-> now + d]
     IN /\ reminders' = save_reminder_db(reminders, rid, u, timestamp(when), rec, rep)
        /\ wk' = [wk EXCEPT ![w] = [Idle EXCEPT !.op = "create", !.pc = "sched_remove",
                                               !.user = u, !.rid = rid,
                                               !.trigger = DateTrigger(when)]]
  /\ created' = created + 1
  /\ resp' = NoResp
  /\ UNCHANGED <<now, tz, jobs, npc, nrem, hist, users, reg>>

\* schedule_job, first half (the trigger is already built from when_dt):
\* try: scheduler.remove_job(job_id) except: pass
SchedRemove(w) ==
  /\ wk[w].pc = "sched_remove"
  /\ LET res == try_remove_job(jobs, wk[w].rid)
     IN IF res.raised
        THEN /\ wk' = [wk EXCEPT ![w] = Idle]
             /\ resp' = Reply(w, 500)
             /\ hist' = Failed(hist, wk[w].rid)
             /\ UNCHANGED jobs
        ELSE /\ wk' = [wk EXCEPT ![w].pc = "sched_add"]
             /\ jobs' = res.jobs
             /\ resp' = NoResp
             /\ UNCHANGED hist
  /\ UNCHANGED <<now, tz, reminders, created, npc, nrem, users, reg>>

\* schedule_job, second half: scheduler.add_job(...); then the handler returns.
SchedAdd(w) ==
  /\ wk[w].pc = "sched_add"
  /\ LET res == add_job(jobs, wk[w].rid, wk[w].trigger)
     IN /\ jobs' = res.jobs
        /\ resp' = Reply(w, IF res.raised THEN 500 ELSE 200)
        /\ hist' = IF res.raised THEN Failed(hist, wk[w].rid) ELSE hist
  /\ wk' = [wk EXCEPT ![w] = Idle]
  /\ UNCHANGED <<now, tz, reminders, created, npc, nrem, users, reg>>

\* ------------------------------------------- existence and ownership check
\* Mutant: the check forgets the owner.
owned_any_user(rem, u) == rem.present

\* if not rem or rem["user_id"] != current_user["id"]: raise HTTPException(404)
owned(rem, u) == rem.present /\ rem.user_id = u

\* The first statement of snooze, cancel and delete: load and check.
Check(w, serial, op, u, rid, m) ==
  /\ CanStart(w, serial)
  /\ LET rem == load_reminder(rid)
         req == [Idle EXCEPT !.op = op, !.user = u, !.rid = rid, !.minutes = m,
                             !.st = rem.status]
     IN IF owned(rem, u)
        THEN /\ wk' = [wk EXCEPT ![w] = [req EXCEPT !.pc = op]]
             /\ resp' = NoResp
        ELSE /\ wk' = wk
             /\ resp' = [NoResp EXCEPT !.op = op, !.code = 404, !.user = u,
                                       !.rid = rid, !.st = rem.status, !.minutes = m]
  /\ UNCHANGED <<now, tz, reminders, jobs, created, npc, nrem, hist, users, reg>>

\* -------------------------------------------------------- snooze_reminder
SnoozeCheck(w, serial, u, rid, m) == Check(w, serial, "snooze", u, rid, m)

\* new_ts = int(time.time()) + minutes * 60; UPDATE ...; then schedule_job.
SnoozeUpdate(w) ==
  /\ wk[w].pc = "snooze"
  /\ LET new_ts == now + wk[w].minutes * SecondsPerMinute
     IN /\ reminders' = snooze_update(reminders, wk[w].rid, new_ts)
        /\ wk' = [wk EXCEPT ![w].pc = "sched_remove",
                             ![w].trigger = DateTrigger(utcfromtimestamp(new_ts))]
  /\ resp' = NoResp
  /\ UNCHANGED <<now, tz, jobs, created, npc, nrem, hist, users, reg>>

\* -------------------------------------------------------- cancel_reminder
CancelCheck(w, serial, u, rid) == Check(w, serial, "cancel", u, rid, 0)

CancelUpdate(w) ==
  /\ wk[w].pc = "cancel"
  /\ reminders' = update_reminder_status(reminders, wk[w].rid, "cancelled")
  /\ wk' = [wk EXCEPT ![w].pc = "cancel_remove"]
  /\ resp' = NoResp
  /\ UNCHANGED <<now, tz, jobs, created, npc, nrem, hist, users, reg>>

\* try: scheduler.remove_job(job_id) except: pass; return {"status": "cancelled"}
FinishRemove(w, pc) ==
  /\ wk[w].pc = pc
  /\ LET res == try_remove_job(jobs, wk[w].rid)
     IN /\ jobs' = IF res.raised THEN jobs ELSE res.jobs
        /\ resp' = Reply(w, IF res.raised THEN 500 ELSE 200)
        /\ hist' = LET h == IF res.raised THEN Failed(hist, wk[w].rid) ELSE hist
                   IN IF pc = "delete_remove" /\ ~res.raised
                      THEN Deleted(h, wk[w].rid) ELSE h
  /\ wk' = [wk EXCEPT ![w] = Idle]
  /\ UNCHANGED <<now, tz, reminders, created, npc, nrem, users, reg>>

CancelRemove(w) == FinishRemove(w, "cancel_remove")

\* -------------------------------------------------------- delete_reminder
DeleteCheck(w, serial, u, rid) == Check(w, serial, "delete", u, rid, 0)

DeleteRow(w) ==
  /\ wk[w].pc = "delete"
  /\ reminders' = delete_row(reminders, wk[w].rid)
  /\ wk' = [wk EXCEPT ![w].pc = "delete_remove"]
  /\ resp' = NoResp
  /\ UNCHANGED <<now, tz, jobs, created, npc, nrem, hist, users, reg>>

DeleteRemove(w) == FinishRemove(w, "delete_remove")

\* ------------------------------------------------------ the timer expiry
\* Mutant: the scheduler takes any due job, whatever its run date.
due_any(js, r, t) == ~IsNone(js[r]) /\ Val(js[r]) <= t

\* The scheduler takes the due jobs (run_date <= now) from the job store
\* ordered by run date, and submits them in that order: job_<r> is the next
\* one when it is due and no job in the store has an earlier run date.
due_next(js, r, t) ==
  /\ ~IsNone(js[r])
  /\ Val(js[r]) <= t
  /\ \A q \in RIds : ~IsNone(js[q]) => Val(js[q]) >= Val(js[r])

\* The scheduler processes a due job: a DateTrigger has no next fire time, so
\* the job leaves the job store when its run is submitted.  The run is dropped
\* when it is later than misfire_grace_time, or when the previous run of the
\* same job id has not returned yet (max_instances is 1).
Expire(r, serial) ==
  /\ serial => Quiet
  /\ due_next(jobs, r, now)
  /\ jobs' = [jobs EXCEPT ![r] = None]
  /\ IF now - Val(jobs[r]) > MisfireGrace \/ npc[r] # "idle"
     THEN UNCHANGED <<npc, hist>>
     ELSE /\ npc' = [npc EXCEPT ![r] = "load"]
          /\ hist' = Invoked(hist, r)
  /\ resp' = NoResp
  /\ UNCHANGED <<now, tz, reminders, created, nrem, wk, users, reg>>

\* ------------------------------------------------------- notifier_notify
NotifyDone(r, code) == [NoResp EXCEPT !.op = "notify", !.code = code, !.rid = r,
                                      !.st = nrem[r].status, !.t = nrem[r].when_ts,
                                      !.rep = nrem[r].repeat_interval]

\* rem = load_reminder(reminder_id); if not rem: return
NotifyLoad(r) ==
  /\ npc[r] = "load"
  /\ LET rem == load_reminder(r)
     IN IF rem.present
        THEN /\ nrem' = [nrem EXCEPT ![r] = rem]
             /\ npc' = [npc EXCEPT ![r] = "mark"]
             /\ resp' = NoResp
        ELSE /\ nrem' = [nrem EXCEPT ![r] = NoRow]
             /\ npc' = [npc EXCEPT ![r] = "idle"]
             /\ resp' = [NoResp EXCEPT !.op = "notify", !.code = 404, !.rid = r]
  /\ UNCHANGED <<now, tz, reminders, jobs, created, wk, hist, users, reg>>

\* Python truth of rem.get("repeat_interval"): None and 0 are false.
Truthy(o) == ~IsNone(o) /\ Val(o) # 0

\* What becomes of the notification: send_email returns True ("sent"), catches
\* the SMTP error and returns False ("failed"), or nothing is sent because
\* SMTP_HOST is not set or the owner is not in table users ("skipped").
Deliveries == {"sent", "failed", "skipped"}

\* Mutant: the callback re-arms only after a notification that was sent.
rearms_if_sent(rem, outcome) == outcome = "sent" /\ Truthy(rem.repeat_interval)

\* if rem.get("repeat_interval"): ... (the result of send_email is not used)
rearms(rem, outcome) == Truthy(rem.repeat_interval)

\* update_reminder_status(id, "fired"); user = get_user_by_id(...); if user:
\* send_email(...), which changes nothing; if rem.get("repeat_interval"): go on
\* to re-arm.
\* (The history keeps the result of send_email for a reminder that stays fired.)
NotifyMark(r, outcome) ==
  /\ npc[r] = "mark"
  /\ ~get_user_by_id(users, nrem[r].user_id) => outcome = "skipped"
  /\ reminders' = update_reminder_status(reminders, r, "fired")
  /\ hist' = IF reminders'[r].present /\ reminders'[r].status = "fired"
             THEN Fired(hist, r, nrem[r].when_ts,
                        outcome = "sent" /\ ~Truthy(nrem[r].repeat_interval))
             ELSE hist
  /\ IF rearms(nrem[r], outcome)
     THEN /\ npc' = [npc EXCEPT ![r] = "rearm"]
          /\ resp' = NoResp
          /\ UNCHANGED nrem
     ELSE /\ npc' = [npc EXCEPT ![r] = "idle"]
          /\ resp' = NotifyDone(r, 200)
          /\ nrem' = [nrem EXCEPT ![r] = NoRow]
  /\ UNCHANGED <<now, tz, jobs, created, wk, users, reg>>

\* next_ts = rem["when_ts"] + rem["repeat_interval"]
next_ts(rem) == rem.when_ts + Val(rem.repeat_interval)

\* UPDATE reminders SET when_ts=next_ts, status='scheduled'
NotifyRearm(r) ==
  /\ npc[r] = "rearm"
  /\ reminders' = rearm_update(reminders, r, next_ts(nrem[r]))
  /\ npc' = [npc EXCEPT ![r] = "sched_remove"]
  /\ resp' = NoResp
  /\ UNCHANGED <<now, tz, jobs, created, nrem, wk, hist, users, reg>>

\* schedule_job(rem["id"], datetime.utcfromtimestamp(next_ts)), first half
NotifySchedRemove(r) ==
  /\ npc[r] = "sched_remove"
  /\ LET res == try_remove_job(jobs, r)
     IN IF res.raised
        THEN /\ npc' = [npc EXCEPT ![r] = "idle"]
             /\ resp' = NotifyDone(r, 500)
             /\ hist' = Failed(hist, r)
             /\ nrem' = [nrem EXCEPT ![r] = NoRow]
             /\ UNCHANGED jobs
        ELSE /\ npc' = [npc EXCEPT ![r] = "sched_add"]
             /\ jobs' = res.jobs
             /\ resp' = NoResp
             /\ UNCHANGED <<hist, nrem>>
  /\ UNCHANGED <<now, tz, reminders, created, wk, users, reg>>

\* schedule_job, second half; the callback returns.
NotifySchedAdd(r) ==
  /\ npc[r] = "sched_add"
  /\ LET res == add_job(jobs, r, DateTrigger(utcfromtimestamp(next_ts(nrem[r]))))
     IN /\ jobs' = res.jobs
        /\ resp' = NotifyDone(r, IF res.raised THEN 500 ELSE 200)
        /\ hist' = IF res.raised THEN Failed(hist, r) ELSE hist
  /\ npc' = [npc EXCEPT ![r] = "idle"]
  /\ nrem' = [nrem EXCEPT ![r] = NoRow]
  /\ UNCHANGED <<now, tz, reminders, created, wk, users, reg>>

\* A write of the callback fails: sqlite3 raises in execute or commit of
\* update_reminder_status(id, "fired") (pc "mark") or of the re-arm UPDATE
\* (pc "rearm"); nothing is written, nothing catches the exception, and the
\* callback ends there.
NotifyWriteFails(r) ==
  /\ npc[r] \in {"mark", "rearm"}
  /\ npc' = [npc EXCEPT ![r] = "idle"]
  /\ nrem' = [nrem EXCEPT ![r] = NoRow]
  /\ hist' = Failed(hist, r)
  /\ resp' = [NoResp EXCEPT !.op = "notify", !.code = 500, !.rid = r,
                            !.st = "write_failed"]
  /\ UNCHANGED <<now, tz, reminders, jobs, created, wk, users, reg>>

\* ------------------------------------------------------------- queries
\* Mutant: the SELECT has no WHERE user_id=? clause.
get_reminders_all_users(u) ==
  { [id |-> r, when |-> reminders[r].when_ts, status |-> reminders[r].status] :
      r \in { x \in RIds : reminders[x].present } }

\* SELECT id,...,when_ts,status FROM reminders WHERE user_id=?
get_reminders(u) ==
  { [id |-> r, when |-> reminders[r].when_ts, status |-> reminders[r].status] :
      r \in { x \in RIds : reminders[x].present /\ reminders[x].user_id = u } }

\* Mutant: when_ts >= since instead of when_ts > since.
poll_notifications_ge(since, u) ==
  { [id |-> r, when |-> reminders[r].when_ts] :
      r \in { x \in RIds : /\ reminders[x].present
                           /\ reminders[x].status = "fired"
                           /\ reminders[x].user_id = u
                           /\ (Truthy(since) => reminders[x].when_ts >= Val(since)) } }

\* if since: ... WHERE status='fired' AND when_ts > ? AND user_id=?
\* else:     ... WHERE status='fired' AND user_id=?
poll_notifications(since, u) ==
  { [id |-> r, when |-> reminders[r].when_ts] :
      r \in { x \in RIds : /\ reminders[x].present
                           /\ reminders[x].status = "fired"
                           /\ reminders[x].user_id = u
                           /\ (Truthy(since) => reminders[x].when_ts > Val(since)) } }

List(w, serial, u) ==
  /\ CanStart(w, serial)
  /\ resp' = [NoResp EXCEPT !.op = "list", !.code = 200, !.user = u,
                            !.rows = get_reminders(u)]
  /\ UNCHANGED <<now, tz, reminders, jobs, created, npc, nrem, wk, hist, users, reg>>

Poll(w, serial, u, since) ==
  /\ CanStart(w, serial)
  /\ resp' = [NoResp EXCEPT !.op = "poll", !.code = 200, !.user = u, !.since = since,
                            !.rows = poll_notifications(since, u)]
  /\ UNCHANGED <<now, tz, reminders, jobs, created, npc, nrem, wk, hist, users, reg>>

\* ------------------------------------------------------ specifications
Create(serial, limit) ==
  \E w \in Workers, u \in Users, d \in WhenDeltas, naive \in BOOLEAN, rep \in RepeatInputs :
     CreateSave(w, serial, limit, u, d, naive, NoLabel, rep)

Snooze(serial) ==
  \E w \in Workers, u \in Users, rid \in RIds, m \in MinutesInputs :
     SnoozeCheck(w, serial, u, rid, m)

Cancel(serial) == \E w \in Workers, u \in Users, rid \in RIds : CancelCheck(w, serial, u, rid)

Delete(serial) == \E w \in Workers, u \in Users, rid \in RIds : DeleteCheck(w, serial, u, rid)

Queries(serial) ==
  \/ \E w \in Workers, u \in Users : List(w, serial, u)
  \/ \E w \in Workers, u \in Users, since \in SinceInputs : Poll(w, serial, u, since)

WorkerStep ==
  \E w \in Workers :
     \/ SchedRemove(w)
     \/ SchedAdd(w)
     \/ SnoozeUpdate(w)
     \/ CancelUpdate(w)
     \/ CancelRemove(w)
     \/ DeleteRow(w)
     \/ DeleteRemove(w)

NotifyStep ==
  \E r \in RIds :
     \/ NotifyLoad(r)
     \/ \E outcome \in Deliveries : NotifyMark(r, outcome)
     \/ NotifyRearm(r)
     \/ NotifySchedRemove(r)
     \/ NotifySchedAdd(r)

\* Handlers on worker threads and callbacks on the executor thread interleave.
Next ==
  \/ Tick
  \/ Create(FALSE, MaxRacing)
  \/ Snooze(FALSE)
  \/ Cancel(FALSE)
  \/ Delete(FALSE)
  \/ WorkerStep
  \/ \E r \in RIds : Expire(r, FALSE)
  \/ NotifyStep

Spec == Init /\ [][Next]_vars

\* One request or callback at a time, each running to its end.
NextSerial ==
  \/ Tick
  \/ Create(TRUE, MaxRacing)
  \/ Snooze(TRUE)
  \/ Cancel(TRUE)
  \/ Delete(TRUE)
  \/ WorkerStep
  \/ \E r \in RIds : Expire(r, TRUE)
  \/ NotifyStep

SpecSerial == Init /\ [][NextSerial]_vars

\* Only create and cancel requests race with the timer callback.
NextCancelRace ==
  \/ Tick
  \/ Create(FALSE, MaxRacing)
  \/ Cancel(FALSE)
  \/ \E w \in Workers : SchedRemove(w) \/ SchedAdd(w) \/ CancelUpdate(w) \/ CancelRemove(w)
  \/ \E r \in RIds : Expire(r, FALSE)
  \/ NotifyStep

SpecCancelRace == Init /\ [][NextCancelRace]_vars

\* Create and cancel requests and timer callbacks, one at a time.
NextCancelSerial ==
  \/ Tick
  \/ Create(TRUE, MaxRacing)
  \/ Cancel(TRUE)
  \/ \E w \in Workers : SchedRemove(w) \/ SchedAdd(w) \/ CancelUpdate(w) \/ CancelRemove(w)
  \/ \E r \in RIds : Expire(r, TRUE)
  \/ NotifyStep

SpecCancelSerial == Init /\ [][NextCancelSerial]_vars

\* Reminders of several users are created and fired, and the users list and poll.
NextQuery ==
  \/ Tick
  \/ Create(TRUE, MaxReminders)
  \/ Queries(TRUE)
  \/ \E w \in Workers : SchedRemove(w) \/ SchedAdd(w)
  \/ \E r \in RIds : Expire(r, TRUE)
  \/ NotifyStep

SpecQuery == Init /\ [][NextQuery]_vars

\* A daily reminder is created for one minute from the start; its owner and
\* others poll with since = the time of creation.
DailyCreate ==
  /\ now = Now0
  /\ \E w \in Workers, u \in Users, d \in WhenDeltas, naive \in BOOLEAN :
        CreateSave(w, TRUE, MaxReminders, u, d, naive, "daily", Some(Daily))

DailyPoll == \E w \in Workers, u \in Users : Poll(w, TRUE, u, Some(Now0))

NextDaily ==
  \/ Tick
  \/ DailyCreate
  \/ DailyPoll
  \/ \E w \in Workers : SchedRemove(w) \/ SchedAdd(w)
  \/ \E r \in RIds : Expire(r, TRUE)
  \/ NotifyStep

SpecDaily == Init /\ [][NextDaily]_vars

\* Reminders are created and fire, one request or callback at a time, and the
\* process may be restarted.  Threads that can take a step eventually take it.
NextRestart ==
  \/ Tick
  \/ Restart
  \/ Create(TRUE, MaxReminders)
  \/ \E w \in Workers : SchedRemove(w) \/ SchedAdd(w)
  \/ \E r \in RIds : Expire(r, TRUE)
  \/ NotifyStep

FairRestart ==
  /\ WF_vars(Tick)
  /\ WF_vars(\E w \in Workers : SchedRemove(w) \/ SchedAdd(w))
  /\ WF_vars(\E r \in RIds : Expire(r, TRUE))
  /\ WF_vars(NotifyStep)

SpecRestart == Init /\ [][NextRestart]_vars /\ FairRestart

\* Reminders are created with any repeat interval that the request model
\* accepts, and fire.
CreateAny ==
  \E w \in Workers, u \in Users, d \in WhenDeltas, naive \in BOOLEAN,
     rec \in Labels, rep \in RepeatAny :
       CreateSave(w, TRUE, MaxReminders, u, d, naive, rec, rep)

NextCreateAny ==
  \/ Tick
  \/ CreateAny
  \/ \E w \in Workers : SchedRemove(w) \/ SchedAdd(w)
  \/ \E r \in RIds : Expire(r, TRUE)
  \/ NotifyStep

SpecCreateAny == Init /\ [][NextCreateAny]_vars

\* Register requests, any number of them in flight up to MaxRegistering.
Register ==
  \/ \E w \in RegWorkers, email \in Emails : RegisterCheck(w, email)
  \/ \E w \in RegWorkers : RegisterInsert(w)

NextRegister ==
  \/ Tick
  \/ Register

SpecRegister == Init /\ [][NextRegister]_vars

\* Reminders are created and fire, one at a time, and a write of the callback
\* to the store may fail.
NextStoreFailure ==
  \/ Tick
  \/ Create(TRUE, MaxReminders)
  \/ \E w \in Workers : SchedRemove(w) \/ SchedAdd(w)
  \/ \E r \in RIds : Expire(r, TRUE)
  \/ NotifyStep
  \/ \E r \in RIds : NotifyWriteFails(r)

SpecStoreFailure == Init /\ [][NextStoreFailure]_vars

\* A fresh database: no user is registered yet.
InitFresh ==
  /\ now = Now0
  /\ tz \in TzOffsets
  /\ reminders = [r \in RIds |-> NoRow]
  /\ jobs = [r \in RIds |-> None]
  /\ created = 0
  /\ npc = [r \in RIds |-> "idle"]
  /\ nrem = [r \in RIds |-> NoRow]
  /\ wk = [w \in Workers |-> Idle]
  /\ resp = NoResp
  /\ hist = [r \in RIds |-> NoHist]
  /\ users = <<>>
  /\ reg = [w \in RegWorkers |-> ""]

\* A request without an Authorization header, served when the dependency
\* returns a user: create, list, and the first statement of snooze, cancel and
\* delete run with that user.
Anonymous ==
  LET a == get_current_user(users, NoHeader)
  IN /\ a.code = 200
     /\ \/ \E w \in Workers, d \in WhenDeltas, naive \in BOOLEAN, rep \in RepeatInputs :
             CreateSave(w, TRUE, MaxRacing, a.user, d, naive, NoLabel, rep)
        \/ \E w \in Workers : List(w, TRUE, a.user)
        \/ \E w \in Workers, rid \in RIds, m \in MinutesInputs :
             SnoozeCheck(w, TRUE, a.user, rid, m)
        \/ \E w \in Workers, rid \in RIds : CancelCheck(w, TRUE, a.user, rid)
        \/ \E w \in Workers, rid \in RIds : DeleteCheck(w, TRUE, a.user, rid)

\* Users register one at a time, requests with any header are authenticated,
\* and requests without a header are served.
NextAuth ==
  \/ Tick
  \/ \E i \in 1..Len(Accounts) : Quiet /\ RegisterCheck(1, Accounts[i])
  \/ RegisterInsert(1)
  \/ \E h \in Headers : Authenticate(h)
  \/ Anonymous
  \/ WorkerStep
  \/ \E r \in RIds : Expire(r, TRUE)
  \/ NotifyStep

SpecAuth == InitFresh /\ [][NextAuth]_vars

\* ===================================================================
\* Properties
\* ===================================================================

Row(r) == reminders[r]
HasTimer(r) == ~IsNone(jobs[r])
Scheduled(r) == Row(r).present /\ Row(r).status = "scheduled"

\* C1: between operations, a reminder is 'scheduled' if and only if a pending
\* timer job_<id> exists for it; a fired, cancelled or absent reminder has none.
C1_ScheduledIffTimer ==
  Quiet => \A r \in RIds : Scheduled(r) <=> HasTimer(r)

\* The same on a host whose zone is UTC, where only interleavings can break it.
C1_ScheduledIffTimerUTC == tz = 0 => C1_ScheduledIffTimer

\* C2: a status is always scheduled, fired or cancelled, and it only changes
\* scheduled -> fired, scheduled -> cancelled, or fired -> scheduled, the last
\* only in the re-arm step of the notifier.
C2_StatusTransitions ==
  [][\A r \in RIds :
       LET a == reminders[r]
           b == reminders'[r]
       IN /\ b.present => b.status \in Statuses
          /\ (a.present /\ b.present /\ a.status # b.status) =>
               /\ <<a.status, b.status>> \in { <<"scheduled", "fired">>,
                                                <<"scheduled", "cancelled">>,
                                                <<"fired", "scheduled">> }
               /\ (a.status = "fired" => npc[r] = "rearm")]_vars

NoDuplicates(seq) == \A i, j \in 1..Len(seq) : i # j => seq[i] # seq[j]

\* C3: when only cancel requests race with the timer callback, every invocation
\* of the callback marks the reminder 'fired' exactly once (one 'fired' update
\* per invocation, none missing once the callback has returned, no occurrence
\* marked twice) and no step of the callback or of cancel fails.
C3_FiredOncePerOccurrence ==
  \A r \in RIds :
     /\ hist[r].failed = 0
     /\ Len(hist[r].fired) <= hist[r].invoked
     /\ hist[r].invoked <= Len(hist[r].fired) + 1
     /\ npc[r] \in {"idle", "rearm", "sched_remove", "sched_add"} =>
          Len(hist[r].fired) = hist[r].invoked
     /\ NoDuplicates(hist[r].fired)

\* C3 witness: a cancel for the id has written 'cancelled' and is about to
\* remove the timer while the callback of the expired timer has loaded the row
\* and is about to write 'fired'.
C3_Witness ==
  \E r \in RIds, w \in Workers :
     /\ npc[r] = "mark"
     /\ wk[w].op = "cancel" /\ wk[w].rid = r /\ wk[w].pc = "cancel_remove"
     /\ Row(r).status = "cancelled"

\* C3 witness of the outcome: the callback has returned, the occurrence is
\* marked fired once, after a cancel had written 'cancelled'.
C3_WitnessFiredAfterCancel ==
  \E r \in RIds :
     /\ resp.op = "notify" /\ resp.rid = r /\ resp.code = 200
     /\ Len(hist[r].fired) = 1
     /\ resp.st = "cancelled"

\* Consecutive entries of a sequence of times differ by exactly d.
SpacedBy(seq, d) == \A i \in 1..(Len(seq) - 1) : seq[i + 1] = seq[i] + d

\* C4: when the callback has fired a reminder with repeat interval I > 0 at
\* target time T, the reminder is 'scheduled' again with target time T + I and
\* a timer is pending at T + I; with no snooze in between, the fired target
\* times are spaced exactly I apart (so strictly increasing).
C4_RearmAtTPlusI ==
  \A r \in RIds :
     (resp.op = "notify" /\ resp.rid = r /\ resp.code = 200
        /\ ~IsNone(resp.rep) /\ Val(resp.rep) > 0) =>
       /\ Row(r).status = "scheduled"
       /\ Row(r).when_ts = resp.t + Val(resp.rep)
       /\ jobs[r] = Some(resp.t + Val(resp.rep))
       /\ (IsNone(Row(r).snooze_until) => SpacedBy(hist[r].fired, Val(resp.rep)))

\* The same on a host whose zone is UTC.
C4_RearmAtTPlusIUTC == tz = 0 => C4_RearmAtTPlusI

\* C5: when snooze(rid, m) by the owner on a 'scheduled' reminder has returned,
\* the stored target time is now + m*60, the status is 'scheduled', and the one
\* timer of rid is due at that new time.
C5_SnoozeRetargets ==
  (resp.op = "snooze" /\ resp.code = 200 /\ resp.st = "scheduled") =>
     LET new == now + resp.minutes * 60
     IN /\ Row(resp.rid).when_ts = new
        /\ Row(resp.rid).status = "scheduled"
        /\ jobs[resp.rid] = Some(new)

\* The same on a host whose zone is UTC.
C5_SnoozeRetargetsUTC == tz = 0 => C5_SnoozeRetargets

\* C6: a cancel by the owner of an existing reminder never fails, whatever the
\* status it finds (a second cancel in a row finds 'cancelled' and no timer),
\* and when it has returned the status is 'cancelled' and no timer is pending.
C6_CancelIdempotent ==
  resp.op = "cancel" =>
     IF Row(resp.rid).present /\ Row(resp.rid).user_id = resp.user
     THEN /\ resp.code = 200
          /\ Row(resp.rid).status = "cancelled"
          /\ ~HasTimer(resp.rid)
     ELSE resp.code = 404

\* C6 witness: the second of two cancels in a row has returned without error:
\* it found the status 'cancelled' and there was no timer to remove.
C6_Witness ==
  /\ resp.op = "cancel" /\ resp.code = 200 /\ resp.st = "cancelled"
  /\ Row(resp.rid).status = "cancelled" /\ ~HasTimer(resp.rid)

\* C7: once delete(rid) by the owner has returned, rid is in no list and has no
\* pending timer, in every later state.
C7_DeletedStaysGone ==
  \A r \in RIds :
     hist[r].deleted =>
       /\ \A u \in Users : \A x \in get_reminders(u) : x.id # r
       /\ ~HasTimer(r)

\* C8: snooze, cancel and delete answer 404 exactly when the id does not exist
\* or belongs to another user, the step that answers 404 changes no reminder
\* and no timer, and a handler goes past its check only for the owner of an
\* existing reminder.
C8_ChecksBeforeMutation ==
  [][/\ (resp'.code = 404 /\ resp'.op \in {"snooze", "cancel", "delete"}) =>
          /\ UNCHANGED <<reminders, jobs>>
          /\ ~(reminders[resp'.rid].present
                 /\ reminders[resp'.rid].user_id = resp'.user)
     /\ \A w \in Workers :
          (wk[w] = Idle /\ wk'[w].op \in {"snooze", "cancel", "delete"}) =>
             /\ reminders[wk'[w].rid].present
             /\ reminders[wk'[w].rid].user_id = wk'[w].user
             /\ UNCHANGED <<reminders, jobs>>]_vars

\* C8 witness: a user has asked to snooze, cancel or delete an existing
\* reminder of another user and got 404.
C8_Witness ==
  /\ resp.code = 404 /\ resp.op \in {"snooze", "cancel", "delete"}
  /\ Row(resp.rid).present /\ Row(resp.rid).user_id # resp.user

\* C9: list(u) returns exactly the stored reminders owned by u, and
\* poll_fired(u, ...) returns only reminders owned by u.
C9_ListIsolation ==
  /\ resp.op = "list" =>
       { x.id : x \in resp.rows } =
         { r \in RIds : Row(r).present /\ Row(r).user_id = resp.user }
  /\ resp.op = "poll" =>
       \A x \in resp.rows : Row(x.id).present /\ Row(x.id).user_id = resp.user

\* C9 witness: a user lists and gets a reminder of theirs while a reminder of
\* another user is stored.
C9_Witness ==
  /\ resp.op = "list" /\ resp.rows # {}
  /\ \E r \in RIds : Row(r).present /\ Row(r).user_id # resp.user

\* C10: poll_fired(u, since) returns exactly the reminders of u that are
\* 'fired' with a stored time strictly greater than since (all fired reminders
\* of u when since is omitted), each with its stored time, and the step changes
\* nothing but the response.
C10_PollFired ==
  [][resp'.op = "poll" =>
       /\ UNCHANGED <<now, tz, reminders, jobs, created, npc, nrem, wk, hist, users, reg>>
       /\ resp'.rows =
            { [id |-> r, when |-> Row(r).when_ts] :
                r \in { x \in RIds : /\ Row(x).present
                                     /\ Row(x).user_id = resp'.user
                                     /\ Row(x).status = "fired"
                                     /\ (IsNone(resp'.since) \/
                                           Row(x).when_ts > Val(resp'.since)) } }]_vars

\* C10 witness: a poll with a since returns a fired, non-recurring reminder
\* whose notification was not delivered.
C10_Witness ==
  /\ resp.op = "poll" /\ ~IsNone(resp.since) /\ Val(resp.since) > 0
  /\ \E x \in resp.rows : /\ ~hist[x.id].delivered
                          /\ IsNone(Row(x.id).repeat_interval)
                          /\ Row(x.id).status = "fired"

\* C11: a reminder created at time t0 for t0 + 60 with repeat interval 86400:
\* once its callback has returned it was marked 'fired' for t0 + 60, it is
\* 'scheduled' again with target and timer at t0 + 86460, and a poll by the
\* owner with since = t0 returns it, once, with when = t0 + 60.
C11_DailyScenario ==
  \A r \in RIds :
     (Row(r).present /\ Row(r).repeat_interval = Some(Daily)
        /\ hist[r].invoked > 0 /\ npc[r] = "idle") =>
       /\ hist[r].fired = << Now0 + 60 >>
       /\ Row(r).status = "scheduled"
       /\ Row(r).when_ts = Now0 + 60 + Daily
       /\ jobs[r] = Some(Now0 + 60 + Daily)
       /\ (resp.op = "poll" /\ resp.user = Row(r).user_id /\ resp.since = Some(Now0)) =>
            { x \in resp.rows : x.id = r } = { [id |-> r, when |-> Now0 + 60] }

\* The part of C11 that the notifier does, on a host whose zone is UTC.
C11_DailyRearmUTC ==
  \A r \in RIds :
     (tz = 0 /\ Row(r).present /\ Row(r).repeat_interval = Some(Daily)
        /\ hist[r].invoked > 0 /\ npc[r] = "idle") =>
       /\ hist[r].fired = << Now0 + 60 >>
       /\ Row(r).status = "scheduled"
       /\ Row(r).when_ts = Now0 + 60 + Daily
       /\ jobs[r] = Some(Now0 + 60 + Daily)

\* The part of C11 that the poll does, on a host whose zone is UTC.
C11_DailyPollUTC ==
  \A r \in RIds :
     (tz = 0 /\ Row(r).present /\ Row(r).repeat_interval = Some(Daily)
        /\ hist[r].invoked > 0 /\ npc[r] = "idle"
        /\ resp.op = "poll" /\ resp.user = Row(r).user_id /\ resp.since = Some(Now0)) =>
       { x \in resp.rows : x.id = r } = { [id |-> r, when |-> Now0 + 60] }

\* The job store after the two steps of a schedule_job call for rid that was
\* not interrupted and did not raise.
Rescheduled(js, rid, trigger) == [js EXCEPT ![rid] = Some(trigger)]

C12_WitnessReplaced ==
  /\ resp.op = "snooze" /\ resp.code = 200 /\ resp.st = "scheduled"
  /\ tz = 0
  /\ jobs[resp.rid] = Some(now + SecondsPerMinute)
  /\ now > Now0 /\ hist[resp.rid].invoked = 0 /\ hist[resp.rid].failed = 0

\* The target times that the clock can reach.
Times == { Now0 + k * TickStep : k \in 1..MaxTicks }

FiredAt(r, t) == \E i \in 1..Len(hist[r].fired) : hist[r].fired[i] = t

\* C13 (host in UTC, no cancel, snooze or delete): a reminder that is
\* 'scheduled' for a time t the clock can reach is eventually fired for t,
\* also when the process is restarted in between.
C13_EventuallyFired ==
  \A r \in RIds, t \in Times :
     (tz = 0 /\ Scheduled(r) /\ Row(r).when_ts = t) ~> FiredAt(r, t)

\* C13, the safety part (host in UTC): a timer that leaves the job store at
\* its expiry starts the callback for its id, once.
C13_InvokedOnExpiry ==
  [][\A r \in RIds :
       (tz = 0 /\ HasTimer(r) /\ ~HasTimer(r)' /\ Val(jobs[r]) <= now) =>
          hist'[r].invoked = hist[r].invoked + 1]_vars

\* The reminder is cancelled, has no timer, and no callback runs for it.
CancelledForGood(r) ==
  /\ Row(r).present /\ Row(r).status = "cancelled"
  /\ ~HasTimer(r)
  /\ npc[r] = "idle"

\* C14: a cancel that returns while the timer of the reminder is still pending
\* (its own 'cancelled' is the stored status, no callback runs for the id)
\* leaves the reminder cancelled with no timer without any callback having
\* been invoked; and from then on the reminder stays cancelled, with no timer
\* and no invocation of the callback, in every step taken while no create,
\* snooze or delete of it is in flight.
C14_CancelBeforeExpiry ==
  [][\A r \in RIds :
       /\ (/\ \E w \in Workers : /\ wk[w].pc = "cancel_remove" /\ wk[w].rid = r
                                  /\ wk'[w] = Idle /\ resp'.code = 200
            /\ HasTimer(r) /\ npc[r] = "idle" /\ Row(r).status = "cancelled") =>
              (CancelledForGood(r)' /\ hist'[r] = hist[r])
       /\ (/\ CancelledForGood(r)
            /\ ~\E w \in Workers : /\ wk[w].rid = r
                                     /\ wk[w].op \in {"create", "snooze", "delete"}) =>
              (CancelledForGood(r)' /\ hist'[r] = hist[r])]_vars

\* C14 witness: a reminder was cancelled before its timer expired; its target
\* time has passed, the callback was never invoked, and it is still cancelled
\* with no timer.
C14_Witness ==
  \E r \in RIds :
     /\ Quiet /\ CancelledForGood(r)
     /\ now > Row(r).when_ts
     /\ hist[r].invoked = 0 /\ hist[r].failed = 0

C15_WitnessBoth ==
  \E r, q \in RIds :
     /\ FiredAt(r, Now0 + TickStep) /\ FiredAt(q, Now0 + TickStep + TickStep)
     /\ IsNone(Row(r).repeat_interval)

\* C16: the repeat_interval of every stored reminder is absent or positive.
C16_RepeatPositive ==
  \A r \in RIds :
     Row(r).present =>
        IF IsNone(Row(r).repeat_interval) THEN TRUE
        ELSE Val(Row(r).repeat_interval) > 0

\* C17: no two rows of users have the same email; a register call that
\* returns for an email that was already registered fails and adds no user,
\* one for a new email succeeds and adds exactly that user.
C17_UniqueEmails ==
  [][/\ \A i, j \in 1..Len(users') : i # j => users'[i] # users'[j]
     /\ resp'.op = "register" =>
          IF get_user_by_email(users, resp'.email)
          THEN resp'.code \in {400, 500} /\ users' = users
          ELSE resp'.code = 200 /\ users' = Append(users, resp'.email)]_vars

\* C17 witness: two register calls for the same new email have both passed
\* the existence check; the first has inserted its row and the second has
\* been refused by the insert.
C17_Witness ==
  /\ resp.op = "register" /\ resp.code = 500
  /\ Cardinality({ i \in 1..Len(users) : users[i] = resp.email }) = 1

\* C18: when the callback loads an id that is not in the store, it returns at
\* once: no row, no timer, no user and nothing of the history of any reminder
\* changes (no 'fired' update, no delivery, no failed step), and no handler
\* is affected.
C18_AbsentIsNoOp ==
  [][\A r \in RIds :
       (npc[r] = "load" /\ ~reminders[r].present /\ npc'[r] # "load") =>
          /\ npc'[r] = "idle"
          /\ nrem'[r] = NoRow
          /\ UNCHANGED <<reminders, jobs, hist, users, wk, created>>]_vars

\* C18 witness: the callback was invoked for a reminder that was deleted
\* before the callback loaded it, and has returned.
C18_Witness ==
  /\ resp.op = "notify" /\ resp.code = 404
  /\ ~Row(resp.rid).present
  /\ hist[resp.rid].invoked > 0 /\ hist[resp.rid].fired = <<>>
  /\ npc[resp.rid] = "idle"

\* C19: whatever becomes of the notification, the step of the callback that
\* marks and notifies writes 'fired' on the row of the id and nothing else in
\* the store, leaves the timers and the users alone, and goes on to re-arm
\* exactly when the loaded repeat interval is set and not zero; the re-arm
\* then writes the next time and 'scheduled'.
C19_DeliveryIndependent ==
  [][\A r \in RIds :
       /\ (npc[r] = "mark" /\ npc'[r] # "mark") =>
            /\ reminders' = IF reminders[r].present
                             THEN [reminders EXCEPT ![r].status = "fired"]
                             ELSE reminders
            /\ UNCHANGED <<jobs, users>>
            /\ npc'[r] = IF Truthy(nrem[r].repeat_interval) THEN "rearm" ELSE "idle"
       /\ (npc[r] = "rearm" /\ npc'[r] # "rearm") =>
            /\ reminders' = rearm_update(reminders, r, next_ts(nrem[r]))
            /\ npc'[r] = "sched_remove"
            /\ UNCHANGED <<jobs, users>>]_vars

\* C19 witness: the callback of a reminder that does not repeat has returned;
\* the notification was not sent, the reminder is 'fired' and has no timer.
C19_Witness ==
  /\ resp.op = "notify" /\ resp.code = 200 /\ IsNone(resp.rep)
  /\ ~hist[resp.rid].delivered
  /\ Row(resp.rid).status = "fired"
  /\ ~HasTimer(resp.rid)

\* C19 witness, the other outcome: the same with a notification that was sent.
C19_WitnessSent ==
  /\ resp.op = "notify" /\ resp.code = 200 /\ IsNone(resp.rep)
  /\ hist[resp.rid].delivered
  /\ Row(resp.rid).status = "fired"
  /\ ~HasTimer(resp.rid)

\* C20: when a write of the callback to the store has failed, a timer for the
\* id is still pending.
C20_TimerKept ==
  (resp.op = "notify" /\ resp.st = "write_failed") => HasTimer(resp.rid)

\* C21: when the callback has fired a reminder and returned, the reminder is
\* re-armed (status 'scheduled', target time moved by the repeat interval, a
\* timer in the job store) if its repeat_interval is present and positive,
\* whatever its recurrence label; otherwise it is 'fired' and has no timer.
C21_RearmIffPositive ==
  (resp.op = "notify" /\ resp.code = 200) =>
     LET r == resp.rid
         positive == IF IsNone(resp.rep) THEN FALSE ELSE Val(resp.rep) > 0
     IN IF positive
        THEN /\ Row(r).status = "scheduled"
             /\ Row(r).when_ts = resp.t + Val(resp.rep)
             /\ HasTimer(r)
        ELSE /\ Row(r).status = "fired"
             /\ Row(r).when_ts = resp.t
             /\ ~HasTimer(r)

\* C21 for the repeat intervals that are absent, zero or positive: the part of
\* the claim that the callback does fulfil.
C21_RearmIffPositiveNotNegative ==
  (resp.op = "notify" /\ resp.code = 200
     /\ (IF IsNone(resp.rep) THEN TRUE ELSE Val(resp.rep) >= 0)) =>
        C21_RearmIffPositive

\* A reminder with a label and no repeat interval has fired and stays fired.
C21_LabelAloneFired ==
  /\ resp.op = "notify" /\ resp.code = 200 /\ IsNone(resp.rep)
  /\ Row(resp.rid).recurrence = "daily"
  /\ Row(resp.rid).status = "fired" /\ ~HasTimer(resp.rid)

\* The header is "Bearer <token>" with a token that decodes and names a user
\* of table us.
ValidBearer(us, h) ==
  /\ h.present /\ h.scheme = "Bearer"
  /\ decode_token(h.token).ok
  /\ ~IsNone(decode_token(h.token).sub)
  /\ Val(decode_token(h.token).sub) \in 1..Len(us)

\* C22: a request without an Authorization header runs as user 1 when user 1
\* exists and is rejected with 401 when not; a request with a header runs
\* only when the header is a valid bearer token of an existing user, and then
\* as that user; with any other header it is rejected, also when user 1
\* exists.
C22_FallbackOnlyWithoutHeader ==
  [][resp'.op = "auth" =>
       LET h == resp'.header
       IN IF ~h.present
          THEN IF 1 \in 1..Len(users)
               THEN resp'.code = 200 /\ resp'.user = 1
               ELSE resp'.code = 401
          ELSE IF ValidBearer(users, h)
               THEN resp'.code = 200 /\ resp'.user = Val(decode_token(h.token).sub)
               ELSE resp'.code \in {401, 500}]_vars

\* C22 for every header but the empty string.
C22_FallbackExceptEmptyHeader ==
  [][(resp'.op = "auth" /\ resp'.header # Header("", "")) =>
       LET h == resp'.header
       IN IF ~h.present
          THEN IF 1 \in 1..Len(users)
               THEN resp'.code = 200 /\ resp'.user = 1
               ELSE resp'.code = 401
          ELSE IF ValidBearer(users, h)
               THEN resp'.code = 200 /\ resp'.user = Val(decode_token(h.token).sub)
               ELSE resp'.code \in {401, 500}]_vars

\* A request without a header has cancelled a reminder of user 1.
C22_AnonymousCancelled ==
  /\ resp.op = "cancel" /\ resp.code = 200 /\ resp.user = 1
  /\ Row(resp.rid).status = "cancelled"

\* C23: between operations, the pending timer of every 'scheduled' reminder is
\* due at the reminder's stored when_ts, after create, snooze and re-arm alike.
C23_TimerAtWhenTs ==
  Quiet => \A r \in RIds :
             (Scheduled(r) /\ HasTimer(r)) => Val(jobs[r]) = Row(r).when_ts

\* The same on a host whose zone is UTC.
C23_TimerAtWhenTsUTC == tz = 0 => C23_TimerAtWhenTs

\* After a create alone (no snooze, no re-arm yet) the timer is at when_ts on
\* any host.
C23_TimerAtWhenTsCreated ==
  Quiet => \A r \in RIds :
             (Scheduled(r) /\ HasTimer(r) /\ IsNone(Row(r).snooze_until)
                /\ hist[r].invoked = 0) => Val(jobs[r]) = Row(r).when_ts

\* C24: when snooze(rid, m) by the owner on a 'fired' or 'cancelled' reminder
\* has returned, the status is 'scheduled' again, when_ts and snooze_until are
\* both now + m*60, and one timer of rid is pending that will still run (it is
\* not already past the misfire grace time), so the reminder fires again.
C24_SnoozeRevives ==
  (resp.op = "snooze" /\ resp.code = 200 /\ resp.st \in {"fired", "cancelled"}) =>
     LET new == now + resp.minutes * SecondsPerMinute
     IN /\ Row(resp.rid).status = "scheduled"
        /\ Row(resp.rid).when_ts = new
        /\ Row(resp.rid).snooze_until = Some(new)
        /\ HasTimer(resp.rid)
        /\ Val(jobs[resp.rid]) + MisfireGrace >= now

\* The same on a host whose zone is UTC.
C24_SnoozeRevivesUTC == tz = 0 => C24_SnoozeRevives

\* The store and the job store after such a snooze, on any host: the row is
\* 'scheduled' at now + m*60 and a timer is pending, whenever it is due.
C24_SnoozeRevivesRow ==
  (resp.op = "snooze" /\ resp.code = 200 /\ resp.st \in {"fired", "cancelled"}) =>
     LET new == now + resp.minutes * SecondsPerMinute
     IN /\ Row(resp.rid).status = "scheduled"
        /\ Row(resp.rid).when_ts = new
        /\ Row(resp.rid).snooze_until = Some(new)
        /\ HasTimer(resp.rid)

\* A snooze has returned on a cancelled reminder, and on a fired one.
C24_SnoozedCancelled == resp.op = "snooze" /\ resp.code = 200 /\ resp.st = "cancelled"
C24_SnoozedFired == resp.op = "snooze" /\ resp.code = 200 /\ resp.st = "fired"

====
